---- MODULE Spec2Model ----
(***************************************************************************)
(* Divimate backend (src/src/index.js): one group, its membership rows,    *)
(* its Expense rows, and the requests that read and write them.            *)
(*                                                                         *)
(* Money is counted in whole cents; sums and differences of amounts are    *)
(* exact.  `+x.toFixed(2)` is rounding to the nearest cent; where the      *)
(* decimal value lies exactly half-way between two cents the result        *)
(* depends on the binary double under it, so both neighbours are possible  *)
(* (parameter `up` of ToFixed2).  The amounts below are multiples of four   *)
(* cents, so that no split of theirs among up to seven members is such a   *)
(* tie and every run is one the doubles of the program make too.           *)
(*                                                                         *)
(* The summary handler is synchronous after its single database read, so   *)
(* while its matching loop runs no other handler takes a step.             *)
(*                                                                         *)
(* Spec is the whole API with requests that carry no Authorization header; *)
(* AuthSpec is groups, expenses and settle requests with any header;       *)
(* EngineSpec is the summary alone, with any header, started on a group    *)
(* and a ledger drawn from bounded sets.                                   *)
(***************************************************************************)
EXTENDS Integers, Sequences, FiniteSets

\* ---------------------------------------------------------------- bounds
NumUsers == 3        \* users that exist (User rows)
MaxEntries == 3      \* Expense rows the group may hold
MaxLedger == 2       \* Expense rows of a ledger the summary is started on (EngineSpec)
MaxGroupSize == 5    \* members of a group the summary is started on (EngineSpec)

Users == 1..NumUsers
\* amounts a client posts to the expenses endpoint, in cents
Amounts == {12}
\* amounts a client posts to the settle endpoint, in cents
SettleAmounts == {4}
\* amounts of the ledgers the summary is started on (EngineSpec), in cents:
\* 0.04, 0.08, 30.00, 90.00, 100.00
EngineAmounts == {4, 8, 3000, 9000, 10000}

\* the 0.01 of the matching loop, in cents
Threshold == 1

VARIABLES
    groupExists,   \* the Group row exists
    members,       \* UserGroup rows of the group, in row order: sequence of user ids
    expenses,      \* Expense rows of the group, in row order
    settle,        \* the settle request in flight, with the rows its transaction has written
    rm,            \* the remove-member request in flight
    sum_pc,        \* the summary request: "idle", "loop", "done"
    req,           \* the summary request's token and the req.user the middleware set from it
    snap,          \* what the summary request read and derived from it
    loop,          \* lexical state of the matching loop
    iter,          \* parity of the number of loop iterations run by the request
    resp,          \* the response of the summary request
    last           \* the response the same caller got to the same request just before

vars == <<groupExists, members, expenses, settle, rm, sum_pc, req, snap, loop, iter, resp, last>>

\* ---------------------------------------------------------------- authentication
\* the Authorization header of a request: absent, a token naming the user
\* `sub` that jwt.verify rejects, or a token signed for the user `sub`
NoToken == [kind |-> "none", sub |-> 0]
Tokens ==
    {NoToken} \cup {[kind |-> k, sub |-> u] : k \in {"invalid", "valid"}, u \in Users}

\* req.user = null
Null == [isNull |-> TRUE, sub |-> 0]

\* req.user set to the owner of whatever token is sent: the verification skipped
DecodeToken(token) ==
    IF token.kind = "none" THEN Null ELSE [isNull |-> FALSE, sub |-> token.sub]

\* authenticateToken: req.user is the payload of a verified token, null otherwise
AuthenticateToken(token) ==
    IF token.kind = "valid" THEN [isNull |-> FALSE, sub |-> token.sub] ELSE Null

\* req.user ? req.user.sub === debtor.id : false
CanSettle(user, debtor) == IF user.isNull THEN FALSE ELSE user.sub = debtor.id

\* ---------------------------------------------------------------- helpers
Abs(x) == IF x < 0 THEN -x ELSE x
Min(a, b) == IF a < b THEN a ELSE b
Range(s) == {s[k] : k \in 1..Len(s)}
RemoveAt(s, k) == SubSeq(s, 1, k - 1) \o SubSeq(s, k + 1, Len(s))

RECURSIVE SumAmounts(_)
\* group.expenses.reduce((sum, e) => sum + e.amount, 0)
SumAmounts(es) ==
    IF es = <<>> THEN 0 ELSE es[1].amount + SumAmounts(Tail(es))

RECURSIVE PaidByPositive(_, _)
\* the paid sum taken over the positive rows only: settlements received left out
PaidByPositive(es, u) ==
    IF es = <<>> THEN 0
    ELSE (IF es[1].paidById = u /\ es[1].amount > 0 THEN es[1].amount ELSE 0)
         + PaidByPositive(Tail(es), u)

RECURSIVE PaidBy(_, _)
\* paidMap[u.id]: 0, plus the amount of every row whose paidById is u.id
PaidBy(es, u) ==
    IF es = <<>> THEN 0
    ELSE (IF es[1].paidById = u THEN es[1].amount ELSE 0) + PaidBy(Tail(es), u)

\* +(num / den).toFixed(2) for den > 0, in cents; `up` resolves a half-cent tie
ToFixed2(num, den, up) ==
    LET q == num \div den
        r == num % den
    IN  IF 2 * r < den THEN q
        ELSE IF 2 * r > den THEN q + 1
        ELSE IF up THEN q + 1 ELSE q

\* a JavaScript number: a number of cents, or one of NaN, Infinity, -Infinity
Number(v) == [kind |-> "number", value |-> v]
NotANumber(kind) == [kind |-> kind, value |-> 0]

\* the pool divided among the members other than one payer
SplitAmountAmongOthers(total, n, up) ==
    IF n <= 1
    THEN NotANumber(IF total = 0 THEN "NaN" ELSE IF total > 0 THEN "Infinity" ELSE "-Infinity")
    ELSE Number(ToFixed2(total, n - 1, up))

\* +(totalExpense / users.length).toFixed(2); a division by zero gives NaN or an infinity
SplitAmount(total, n, up) ==
    IF n = 0
    THEN NotANumber(IF total = 0 THEN "NaN" ELSE IF total > 0 THEN "Infinity" ELSE "-Infinity")
    ELSE Number(ToFixed2(total, n, up))

\* users.map(u => ({id, paid, owes, balance})); only evaluated for a non-empty users
BalancesOf(users, es, split) ==
    [k \in 1..Len(users) |->
        [id |-> users[k],
         paid |-> PaidBy(es, users[k]),
         owes |-> split.value,
         balance |-> PaidBy(es, users[k]) - split.value]]

RECURSIVE Filter(_, _)
Filter(s, sign) ==
    IF s = <<>> THEN <<>>
    ELSE IF s[1].balance * sign > 0 THEN <<s[1]>> \o Filter(Tail(s), sign)
    ELSE Filter(Tail(s), sign)

RECURSIVE SortByBalance(_, _)
\* Array.prototype.sort with comparator sign * (a.balance - b.balance); the sort is stable
SortByBalance(s, sign) ==
    IF s = <<>> THEN <<>>
    ELSE LET best == CHOOSE k \in 1..Len(s) :
                        /\ \A m \in 1..Len(s) : sign * s[k].balance <= sign * s[m].balance
                        /\ \A m \in 1..(k - 1) : s[m].balance # s[k].balance
         IN  <<s[best]>> \o SortByBalance(RemoveAt(s, best), sign)

\* the debtors left in member order: the sort forgotten
DebtorsUnsorted(balances) == Filter(balances, -1)

\* balances.filter(b => b.balance < 0).sort((a, b) => a.balance - b.balance)
Debtors(balances) == SortByBalance(Filter(balances, -1), 1)
\* balances.filter(b => b.balance > 0).sort((a, b) => b.balance - a.balance)
Creditors(balances) == SortByBalance(Filter(balances, 1), -1)

\* ---------------------------------------------------------------- matching loop
LoopCond(l) == l.i < Len(l.debtorsCopy) /\ l.j < Len(l.creditorsCopy)

\* an iteration that leaves the creditor's running balance as it was
LoopBodyCreditorKept(l, user) ==
    LET debtor == l.debtorsCopy[l.i + 1]
        creditor == l.creditorsCopy[l.j + 1]
        amount == Min(Abs(debtor.balance), creditor.balance)
        emit == amount > Threshold
        dbal == IF emit THEN debtor.balance + amount ELSE debtor.balance
        cbal == creditor.balance
    IN  [debtorsCopy |-> [l.debtorsCopy EXCEPT ![l.i + 1].balance = dbal],
         creditorsCopy |-> [l.creditorsCopy EXCEPT ![l.j + 1].balance = cbal],
         i |-> IF Abs(dbal) < Threshold THEN l.i + 1 ELSE l.i,
         j |-> IF Abs(cbal) < Threshold THEN l.j + 1 ELSE l.j,
         transactions |->
            IF emit
            THEN Append(l.transactions,
                        [fromUserId |-> debtor.id, toUserId |-> creditor.id, amount |-> amount,
                         canSettle |-> CanSettle(user, debtor)])
            ELSE l.transactions]

\* one iteration of the while loop
LoopBody(l, user) ==
    LET debtor == l.debtorsCopy[l.i + 1]
        creditor == l.creditorsCopy[l.j + 1]
        amount == Min(Abs(debtor.balance), creditor.balance)
        emit == amount > Threshold
        dbal == IF emit THEN debtor.balance + amount ELSE debtor.balance
        cbal == IF emit THEN creditor.balance - amount ELSE creditor.balance
    IN  [debtorsCopy |-> [l.debtorsCopy EXCEPT ![l.i + 1].balance = dbal],
         creditorsCopy |-> [l.creditorsCopy EXCEPT ![l.j + 1].balance = cbal],
         i |-> IF Abs(dbal) < Threshold THEN l.i + 1 ELSE l.i,
         j |-> IF Abs(cbal) < Threshold THEN l.j + 1 ELSE l.j,
         transactions |->
            IF emit
            THEN Append(l.transactions,
                        [fromUserId |-> debtor.id, toUserId |-> creditor.id, amount |-> amount,
                         canSettle |-> CanSettle(user, debtor)])
            ELSE l.transactions]

\* the matching loop run to its exit, or to an iteration that changes nothing
RECURSIVE RunLoop(_, _)
RunLoop(l, user) ==
    IF ~LoopCond(l) THEN l
    ELSE IF LoopBody(l, user) = l THEN l
    ELSE RunLoop(LoopBody(l, user), user)

\* everything the summary handler derives from the group it read
Derive(users, es, up) ==
    LET total == SumAmounts(es)
        split == SplitAmount(total, Len(users), up)
        balances == IF Len(users) = 0 THEN <<>> ELSE BalancesOf(users, es, split)
    IN  [users |-> users, expenses |-> es, totalExpense |-> total,
         splitAmount |-> split, balances |-> balances]

\* let i = 0, j = 0; debtorsCopy, creditorsCopy; transactions = []
StartLoop(balances) ==
    [debtorsCopy |-> Debtors(balances), creditorsCopy |-> Creditors(balances),
     i |-> 0, j |-> 0, transactions |-> <<>>]

\* ---------------------------------------------------------------- rows
Expense(paidById, amount) ==
    [paidById |-> paidById, amount |-> amount, description |-> [kind |-> "expense", user |-> 0]]
\* description: `Settlement to ${toMember.user.name}`
SettlementOut(fromId, toId, amount) ==
    [paidById |-> fromId, amount |-> amount, description |-> [kind |-> "to", user |-> toId]]
\* the second row written with the amount of the first: the sign forgotten
SettlementInPositive(fromId, toId, amount) ==
    [paidById |-> toId, amount |-> amount, description |-> [kind |-> "from", user |-> fromId]]

\* description: `Settlement from ${fromMember.user.name}`
SettlementIn(fromId, toId, amount) ==
    [paidById |-> toId, amount |-> -amount, description |-> [kind |-> "from", user |-> fromId]]

\* an insert written straight to the table, outside any transaction
TxInsertAutocommit(db, row) ==
    [expenses |-> Append(db.expenses, row), written |-> db.written]

\* prisma.$transaction([...]): an insert inside the transaction is private until the commit
TxInsert(db, row) ==
    [expenses |-> db.expenses, written |-> Append(db.written, row)]

NoLoop == [debtorsCopy |-> <<>>, creditorsCopy |-> <<>>, i |-> 0, j |-> 0, transactions |-> <<>>]
NoSnap ==
    [users |-> <<>>, expenses |-> <<>>, totalExpense |-> 0, splitAmount |-> Number(0),
     balances |-> <<>>]
NoResp == [status |-> 0]
NoReq == [token |-> NoToken, user |-> Null]
NoSettle == [pc |-> "idle"]
NoRm == [pc |-> "idle"]

\* ---------------------------------------------------------------- state machine
Init ==
    /\ groupExists = FALSE
    /\ members = <<>>
    /\ expenses = <<>>
    /\ settle = NoSettle
    /\ rm = NoRm
    /\ sum_pc = "idle"
    /\ req = NoReq
    /\ snap = NoSnap
    /\ loop = NoLoop
    /\ iter = 0
    /\ resp = NoResp
    /\ last = NoResp

\* the event loop is free: no summary handler is between its read and its response
Free == sum_pc = "idle"

\* POST /api/groups
CreateGroup ==
    /\ Free /\ ~groupExists
    /\ \E n \in 0..NumUsers : \E userIds \in [1..n -> Users] :
          /\ \A k \in 1..(n - 1) : userIds[k] < userIds[k + 1]
          /\ members' = userIds
    /\ groupExists' = TRUE
    /\ UNCHANGED <<expenses, settle, rm, sum_pc, req, snap, loop, resp, iter, last>>

\* POST /api/groups/:groupId/members and /add-member
AddMember ==
    /\ Free /\ groupExists
    /\ \E userId \in Users :
          /\ userId \notin Range(members)
          /\ members' = Append(members, userId)
    /\ UNCHANGED <<groupExists, expenses, settle, rm, sum_pc, req, snap, loop, resp, iter, last>>

\* DELETE /api/groups/:groupId/members/:userId, up to the end of its checks
RemoveRead ==
    /\ Free /\ groupExists /\ rm.pc = "idle"
    /\ \E userId \in Users :
          /\ userId \in Range(members)
          /\ \A k \in 1..Len(expenses) : expenses[k].paidById # userId
          /\ rm' = [pc |-> "checked", userId |-> userId]
    /\ UNCHANGED <<groupExists, members, expenses, settle, sum_pc, req, snap, loop, resp, iter, last>>

\* ... and its prisma.group.update({members: {delete}})
RemoveDelete ==
    /\ Free /\ rm.pc = "checked"
    /\ members' = IF \E k \in 1..Len(members) : members[k] = rm.userId
                  THEN RemoveAt(members, CHOOSE k \in 1..Len(members) : members[k] = rm.userId)
                  ELSE members
    /\ rm' = NoRm
    /\ UNCHANGED <<groupExists, expenses, settle, sum_pc, req, snap, loop, resp, iter, last>>

\* POST /api/groups/:groupId/expenses
AddExpense ==
    /\ Free /\ groupExists
    /\ Len(expenses) < MaxEntries
    /\ \E paidById \in Users, amount \in Amounts :
          expenses' = Append(expenses, Expense(paidById, amount))
    /\ UNCHANGED <<groupExists, members, settle, rm, sum_pc, req, snap, loop, resp, iter, last>>

\* POST /api/groups/:groupId/settle, up to the end of its checks, for a request
\* whose Authorization header is one of tokens
SettleRead(tokens) ==
    /\ Free /\ groupExists /\ settle.pc = "idle"
    /\ Len(expenses) + 2 <= MaxEntries
    /\ \E fromUserId \in Users, toUserId \in Users, amount \in SettleAmounts, token \in tokens :
          /\ fromUserId \in Range(members)
          /\ toUserId \in Range(members)
          /\ settle' = [pc |-> "txn", user |-> AuthenticateToken(token),
                        fromId |-> fromUserId, toId |-> toUserId,
                        settlementAmount |-> amount, written |-> <<>>]
    /\ UNCHANGED <<groupExists, members, expenses, rm, sum_pc, req, snap, loop, resp, iter, last>>

\* the first prisma.expense.create of the transaction
SettleInsertOut ==
    /\ Free /\ settle.pc = "txn" /\ Len(settle.written) = 0
    /\ Len(expenses) + 2 <= MaxEntries
    /\ LET db == TxInsert([expenses |-> expenses, written |-> settle.written],
                          SettlementOut(settle.fromId, settle.toId, settle.settlementAmount))
       IN  /\ expenses' = db.expenses
           /\ settle' = [settle EXCEPT !.written = db.written]
    /\ UNCHANGED <<groupExists, members, rm, sum_pc, req, snap, loop, resp, iter, last>>

\* the second prisma.expense.create of the transaction
SettleInsertIn ==
    /\ Free /\ settle.pc = "txn" /\ Len(settle.written) = 1
    /\ LET db == TxInsert([expenses |-> expenses, written |-> settle.written],
                          SettlementIn(settle.fromId, settle.toId, settle.settlementAmount))
       IN  /\ expenses' = db.expenses
           /\ settle' = [settle EXCEPT !.written = db.written]
    /\ UNCHANGED <<groupExists, members, rm, sum_pc, req, snap, loop, resp, iter, last>>

\* the transaction commits: its rows reach the table together
SettleCommit ==
    /\ Free /\ settle.pc = "txn" /\ Len(settle.written) = 2
    /\ expenses' = expenses \o settle.written
    /\ settle' = NoSettle
    /\ UNCHANGED <<groupExists, members, rm, sum_pc, req, snap, loop, resp, iter, last>>

\* an insert or the commit fails: the transaction rolls back, the handler answers 400
SettleFail ==
    /\ Free /\ settle.pc = "txn"
    /\ settle' = NoSettle
    /\ UNCHANGED <<groupExists, members, expenses, rm, sum_pc, req, snap, loop, resp, iter, last>>

\* GET /api/groups/:groupId/summary: findUnique and everything before the while loop
SummaryStart ==
    /\ IF ~groupExists
       THEN /\ resp' = [status |-> 404]
            /\ sum_pc' = "done"
            /\ snap' = NoSnap
            /\ loop' = NoLoop
       ELSE \E up \in BOOLEAN :
            /\ snap' = Derive(members, expenses, up)
            /\ loop' = StartLoop(snap'.balances)
            /\ sum_pc' = "loop"
            /\ resp' = NoResp
    /\ iter' = 0
    /\ UNCHANGED <<groupExists, members, expenses, settle, rm>>

\* a summary request arrives whose Authorization header is one of tokens
SummaryRead(tokens) ==
    /\ sum_pc = "idle"
    /\ \E token \in tokens : req' = [token |-> token, user |-> AuthenticateToken(token)]
    /\ SummaryStart
    /\ UNCHANGED last

\* the caller who has just been answered sends the same request once more: the
\* handler starts over on the group as it stands
SummaryRepeat ==
    /\ sum_pc = "done"
    /\ last = NoResp
    /\ last' = resp
    /\ req' = req
    /\ SummaryStart

\* one iteration of the while loop
LoopStep ==
    /\ sum_pc = "loop"
    /\ LoopCond(loop)
    /\ loop' = LoopBody(loop, req.user)
    /\ UNCHANGED <<groupExists, members, expenses, settle, rm, sum_pc, req, snap, resp, last>>
    /\ iter' = 1 - iter

\* a summary that records the first transfer it suggests as settled
SummaryRespondAndSettle ==
    /\ sum_pc = "loop"
    /\ ~LoopCond(loop)
    /\ resp' = [status |-> 200,
                totalExpense |-> snap.totalExpense,
                splitPerHead |-> snap.splitAmount,
                members |-> snap.balances,
                transactions |-> loop.transactions]
    /\ expenses' =
          IF loop.transactions = <<>> THEN expenses
          ELSE LET t == loop.transactions[1]
               IN  expenses \o <<SettlementOut(t.fromUserId, t.toUserId, t.amount),
                                 SettlementIn(t.fromUserId, t.toUserId, t.amount)>>
    /\ sum_pc' = "done"
    /\ UNCHANGED <<groupExists, members, settle, rm, req, snap, loop, last>>
    /\ iter' = 0

\* res.json({...}) after the loop
SummaryRespond ==
    /\ sum_pc = "loop"
    /\ ~LoopCond(loop)
    /\ resp' = [status |-> 200,
                totalExpense |-> snap.totalExpense,
                splitPerHead |-> snap.splitAmount,
                members |-> snap.balances,
                transactions |-> loop.transactions]
    /\ sum_pc' = "done"
    /\ UNCHANGED <<groupExists, members, expenses, settle, rm, req, snap, loop, last>>
    /\ iter' = 0

\* the request is over
SummaryEnd ==
    /\ sum_pc = "done"
    /\ sum_pc' = "idle"
    /\ req' = NoReq
    /\ snap' = NoSnap
    /\ loop' = NoLoop
    /\ resp' = NoResp
    /\ last' = NoResp
    /\ UNCHANGED <<groupExists, members, expenses, settle, rm>>
    /\ iter' = 0

Next ==
    \/ CreateGroup
    \/ AddMember
    \/ RemoveRead
    \/ RemoveDelete
    \/ AddExpense
    \/ SettleRead({NoToken})
    \/ SettleInsertOut
    \/ SettleInsertIn
    \/ SettleCommit
    \/ SettleFail
    \/ SummaryRead({NoToken})
    \/ LoopStep
    \/ SummaryRespond
    \/ SummaryEnd

Spec == Init /\ [][Next]_vars

\* ---------------------------------------------------------------- settling with a token
\* groups, expenses and settle requests with every kind of Authorization header
AuthNext ==
    \/ CreateGroup
    \/ AddMember
    \/ AddExpense
    \/ SettleRead(Tokens)
    \/ SettleInsertOut
    \/ SettleInsertIn
    \/ SettleCommit
    \/ SettleFail

AuthSpec == Init /\ [][AuthNext]_vars

\* ---------------------------------------------------------------- the summary alone
\* groups of 1..MaxGroupSize members and ledgers of expenses paid by members,
\* followed by at most one settlement between members 1 and 2
EngineUsers == 1..MaxGroupSize
EngineRows(n) == {Expense(u, a) : u \in 1..n, a \in EngineAmounts}
EngineSettlements(n) ==
    {<<>>} \cup {<<SettlementOut(f, t, a), SettlementIn(f, t, a)>> :
                    f \in 1..Min(n, 2), t \in 1..Min(n, 2), a \in SettleAmounts}

EngineInit ==
    /\ groupExists = TRUE
    /\ \E n \in 1..MaxGroupSize :
          /\ members = [k \in 1..n |-> k]
          /\ \E len \in 0..MaxLedger : \E rows \in [1..len -> EngineRows(n)] :
                \E pair \in EngineSettlements(n) : expenses = rows \o pair
    /\ settle = NoSettle
    /\ rm = NoRm
    /\ sum_pc = "idle"
    /\ req = NoReq
    /\ snap = NoSnap
    /\ loop = NoLoop
    /\ iter = 0
    /\ resp = NoResp
    /\ last = NoResp

EngineNext ==
    \/ SummaryRead(Tokens)
    \/ SummaryRepeat
    \/ LoopStep
    \/ SummaryRespond
    \/ SummaryEnd

EngineSpec == EngineInit /\ [][EngineNext]_vars

EngineFairSpec == EngineSpec /\ WF_vars(LoopStep) /\ WF_vars(SummaryRespond)

\* ---------------------------------------------------------------- properties
\* the whole summary as a function of the group read: the loop run to its end
Summary(users, es, up) ==
    LET d == Derive(users, es, up)
        l == RunLoop(StartLoop(d.balances), Null)
    IN  [returned |-> ~LoopCond(l), totalExpense |-> d.totalExpense,
         splitPerHead |-> d.splitAmount, members |-> d.balances,
         transactions |-> l.transactions]

RECURSIVE SumOver(_, _)
\* the sum of f[k] over the indices k of the set ks
SumOver(f, ks) ==
    IF ks = {} THEN 0
    ELSE LET k == CHOOSE x \in ks : TRUE IN f[k] + SumOver(f, ks \ {k})

\* what `id` has paid out, and what it has received, in the first n of the transfers ts
SentBy(ts, n, id) ==
    SumOver([k \in 1..n |-> ts[k].amount], {k \in 1..n : ts[k].fromUserId = id})
ReceivedBy(ts, n, id) ==
    SumOver([k \in 1..n |-> ts[k].amount], {k \in 1..n : ts[k].toUserId = id})

\* the transfers ts without their canSettle annotation
Transfers(ts) ==
    [k \in 1..Len(ts) |->
        [fromUserId |-> ts[k].fromUserId, toUserId |-> ts[k].toUserId, amount |-> ts[k].amount]]

Derived == sum_pc \in {"loop", "done"} /\ groupExists
Returned == sum_pc = "done" /\ resp.status = 200

\* C1: the summary computation terminates: a summary request that has entered
\* its matching loop eventually produces its response.
C1_Terminates == (sum_pc = "loop") ~> (sum_pc = "done")

\* C2: transfer soundness: when the summary returns, every member's reported
\* balance, after all emitted transfers are applied to it, is within 0.01 of zero.
C2_TransferSoundness ==
    (Returned /\ Len(snap.users) > 0) =>
        \A k \in 1..Len(resp.members) :
            LET b == resp.members[k]
                n == Len(resp.transactions)
            IN  Abs(b.balance + SentBy(resp.transactions, n, b.id)
                              - ReceivedBy(resp.transactions, n, b.id)) <= Threshold

\* C3: conservation: the reported balances of the members of a group sum to
\* within 0.01 of zero.
C3_Conservation ==
    (Derived /\ Len(snap.users) > 0) =>
        Abs(SumOver([k \in 1..Len(snap.balances) |-> snap.balances[k].balance],
                    1..Len(snap.balances))) <= Threshold

\* C9: rounding boundary: a member whose balance is within 0.01 of zero is in
\* neither partition and in no transfer; balances of -0.02 and +0.02 give a
\* transfer of 0.02.
C9_RoundingBoundary ==
    (Derived /\ Len(snap.users) > 0) =>
        /\ \A k \in 1..Len(snap.balances) :
              LET b == snap.balances[k] IN
              Abs(b.balance) <= Threshold =>
                  /\ \A m \in 1..Len(loop.debtorsCopy) : loop.debtorsCopy[m].id # b.id
                  /\ \A m \in 1..Len(loop.creditorsCopy) : loop.creditorsCopy[m].id # b.id
                  /\ \A m \in 1..Len(loop.transactions) :
                        /\ loop.transactions[m].fromUserId # b.id
                        /\ loop.transactions[m].toUserId # b.id
        /\ (Returned /\ Len(snap.balances) = 2
                     /\ snap.balances[1].balance = 2 /\ snap.balances[2].balance = -2)
              => Transfers(resp.transactions) = <<[fromUserId |-> 2, toUserId |-> 1, amount |-> 2]>>

\* the reported balance of member `id`
BalanceOf(id) ==
    LET k == CHOOSE x \in 1..Len(snap.balances) : snap.balances[x].id = id
    IN  snap.balances[k].balance
PositionIn(list, id) == CHOOSE x \in 1..Len(list) : list[x].id = id

\* the ledger of the three-member example: member 1 paid 90.00, member 2 paid 30.00
ExampleGroup ==
    /\ snap.users = <<1, 2, 3>>
    /\ snap.expenses = <<Expense(1, 9000), Expense(2, 3000)>>

Count(es, row) == Cardinality({k \in 1..Len(es) : es[k] = row})

\* every settlement has both of its rows in es, or neither
PairsWhole(es) ==
    \A fromId \in Users, toId \in Users, amount \in SettleAmounts :
        Count(es, SettlementOut(fromId, toId, amount))
            = Count(es, SettlementIn(fromId, toId, amount))

\* C4: settlement-pair atomicity: the Expense table, and the ledger a summary
\* request has read from it, hold both rows of a settlement or neither, whatever
\* the interleaving of settle and summary requests and whether the transaction
\* commits or fails.
C4_PairAtomicity ==
    /\ PairsWhole(expenses)
    /\ sum_pc # "idle" => PairsWhole(snap.expenses)

\* a summary has answered from a read made while a settle transaction had
\* written the first row of its pair only
C4_Witness ==
    /\ Returned
    /\ settle.pc = "txn"
    /\ Len(settle.written) = 1

\* C5: ledger membership: every Expense row of the group is attributed to a
\* user who is a member of the group.
C5_LedgerMembership ==
    \A k \in 1..Len(expenses) : expenses[k].paidById \in Range(members)

\* the step that commits the rows of a settlement
SettleCommitted ==
    /\ settle.pc = "txn"
    /\ Len(settle.written) = 2
    /\ settle'.pc = "idle"
    /\ expenses' # expenses

\* the summary of the group suggests the transfer t
Suggests(users, es, up, t) ==
    /\ Len(users) > 0
    /\ Summary(users, es, up).returned
    /\ t \in Range(Transfers(Summary(users, es, up).transactions))

\* the balance records of summary `after` are those of `before` with the balance
\* and paid of fromId raised by amount and those of toId lowered by it
MovedBy(before, after, fromId, toId, amount) ==
    /\ after.returned
    /\ after.totalExpense = before.totalExpense
    /\ after.splitPerHead = before.splitPerHead
    /\ Len(after.members) = Len(before.members)
    /\ \A k \in 1..Len(before.members) :
          LET b == before.members[k]
              a == after.members[k]
              delta == IF b.id = fromId THEN amount ELSE IF b.id = toId THEN -amount ELSE 0
          IN  /\ a.id = b.id
              /\ a.balance = b.balance + delta
              /\ a.paid = b.paid + delta
              /\ Abs(a.balance) <= Abs(b.balance)

\* C6: settlement neutrality: when the summary suggests that A pay B the amount X
\* and the settle operation records exactly that pair, the next summary has
\* A's balance raised by X, B's lowered by X, both nearer zero, and
\* totalExpense, splitPerHead and every other balance as before.
C6_SettlementNeutrality ==
    [][SettleCommitted =>
        \A up \in BOOLEAN :
            Suggests(members, expenses, up,
                     [fromUserId |-> settle.fromId, toUserId |-> settle.toId,
                      amount |-> settle.settlementAmount])
            => MovedBy(Summary(members, expenses, up), Summary(members', expenses', up),
                       settle.fromId, settle.toId, settle.settlementAmount)]_vars

\* the last two rows of the table are a settlement that the summary of the rows
\* before them suggested, in a group with a third member
C6_Witness ==
    /\ Len(expenses) >= 2
    /\ Len(members) >= 3
    /\ LET n == Len(expenses)
           out == expenses[n - 1]
           in == expenses[n]
       IN  /\ out.description.kind = "to"
           /\ in.description.kind = "from"
           /\ out = SettlementOut(out.paidById, in.paidById, out.amount)
           /\ in = SettlementIn(out.paidById, in.paidById, out.amount)
           /\ Suggests(members, SubSeq(expenses, 1, n - 2), TRUE,
                       [fromUserId |-> out.paidById, toUserId |-> in.paidById,
                        amount |-> out.amount])

\* C7: a summary request for an existing group without members is answered with
\* a 4xx error, and no answer carries a splitPerHead that is not a number.
C7_EmptyGroupIsError ==
    sum_pc = "done" =>
        /\ (groupExists /\ Len(members) = 0) => resp.status \in 400..499
        /\ resp.status = 200 => resp.splitPerHead.kind = "number"

\* C8: a summary request for a group with members whose ledger has a row paid by a user
\* outside the group is answered with an error, not with a summary.
C8_UnknownMemberIsError ==
    (sum_pc = "done" /\ groupExists /\ Len(members) > 0
        /\ \E k \in 1..Len(expenses) : expenses[k].paidById \notin Range(members))
    => resp.status >= 400

\* the two-member example: member 1 paid the single expense of 100.00
ExampleTwo ==
    /\ snap.users = <<1, 2>>
    /\ snap.expenses = <<Expense(1, 10000)>>

\* C11: per-member balance record: paid is the sum of all rows (expenses and
\* settlements) attributed to the member, owes is splitPerHead, the pool over the
\* member count rounded to the cent, balance is paid - owes; two members and one
\* expense of 100 paid by member 1 give splitPerHead 50, +50, -50 and the single
\* transfer from 2 to 1 of 50.
C11_BalanceRecord ==
    (Derived /\ Len(snap.users) > 0) =>
        LET n == Len(snap.users)
            es == snap.expenses
            split == snap.splitAmount
        IN  /\ split.kind = "number"
            /\ 2 * Abs(n * split.value - SumOver([k \in 1..Len(es) |-> es[k].amount],
                                                 1..Len(es))) <= n
            /\ Len(snap.balances) = n
            /\ \A m \in 1..n :
                  LET b == snap.balances[m] IN
                  /\ b.id = snap.users[m]
                  /\ b.paid = SumOver([k \in 1..Len(es) |-> es[k].amount],
                                      {k \in 1..Len(es) : es[k].paidById = b.id})
                  /\ b.owes = split.value
                  /\ b.balance = b.paid - b.owes
            /\ (Returned /\ ExampleTwo) =>
                  /\ resp.splitPerHead = Number(5000)
                  /\ resp.members[1].balance = 5000
                  /\ resp.members[2].balance = -5000
                  /\ Len(resp.transactions) = 1
                  /\ resp.transactions[1].fromUserId = 2
                  /\ resp.transactions[1].toUserId = 1
                  /\ resp.transactions[1].amount = 5000

\* a summary has answered for a ledger that holds a settlement received by a member
C11_Witness ==
    /\ Returned
    /\ \E k \in 1..Len(snap.expenses) : snap.expenses[k].amount < 0
    /\ \E m \in 1..Len(resp.members) : resp.members[m].paid < 0

\* what is left of the balances the loop worked on
Leftover(l) ==
    {l.debtorsCopy[k].balance : k \in 1..Len(l.debtorsCopy)}
        \cup {l.creditorsCopy[k].balance : k \in 1..Len(l.creditorsCopy)}

\* C12: a request whose matching loop has ended with a member still more than
\* 0.01 away from zero is answered with an error (ArithmeticNotReconciled), not
\* with a summary.
C12_LeftoverIsError ==
    (sum_pc = "done" /\ groupExists /\ \E b \in Leftover(loop) : Abs(b) > Threshold)
    => resp.status >= 400

\* C13: canSettle: every transfer of a summary response has canSettle true
\* exactly when the request carried a valid token of the transfer's debtor; a
\* request without a token or with an invalid one is still answered, with
\* canSettle false on every transfer.
C13_CanSettle ==
    Derived =>
        /\ \A k \in 1..Len(loop.transactions) :
              loop.transactions[k].canSettle
                  <=> (req.token.kind = "valid"
                       /\ req.token.sub = loop.transactions[k].fromUserId)
        /\ sum_pc = "done" => resp.status = 200

\* a summary has been answered to a valid token with one transfer the caller may
\* settle and one the caller may not
C13_Witness ==
    /\ Returned
    /\ req.token.kind = "valid"
    /\ \E k \in 1..Len(resp.transactions) : resp.transactions[k].canSettle
    /\ \E k \in 1..Len(resp.transactions) : ~resp.transactions[k].canSettle

\* C16: the settle operation records a settlement only for an authenticated
\* caller who is the transfer's debtor: a transaction commits rows only when
\* req.user is set and req.user.sub is fromUserId.
C16_SettleGatedByIdentity ==
    [][SettleCommitted => (~settle.user.isNull /\ settle.user.sub = settle.fromId)]_vars

\* a step of the summary handler
SummaryStep == sum_pc # "idle" \/ sum_pc' # "idle"

C15_EmptyPool ==
    (Returned /\ Len(snap.users) > 0 /\ snap.expenses = <<>>) =>
        /\ resp.splitPerHead = Number(0)
        /\ Len(resp.members) = Len(snap.users)
        /\ \A m \in 1..Len(resp.members) : resp.members[m].balance = 0
        /\ resp.transactions = <<>>

\* the summary of a group of one member without rows has been returned
C15_Witness ==
    /\ Returned
    /\ Len(snap.users) = 1
    /\ snap.expenses = <<>>

\* C17: settle against remove-member: whenever no settle and no remove-member
\* request is in flight, every settlement row of the group is attributed to a
\* user who is a member of it.
C17_SettleRemoveRace ==
    (settle.pc = "idle" /\ rm.pc = "idle") =>
        \A k \in 1..Len(expenses) :
            expenses[k].description.kind \in {"to", "from"}
                => expenses[k].paidById \in Range(members)

\* a loop iteration that emits a transfer
Emits == sum_pc = "loop" /\ sum_pc' = "loop" /\ Len(loop'.transactions) > Len(loop.transactions)

\* an iteration that emits advances a cursor
EmitAdvances == Emits => (loop'.i > loop.i \/ loop'.j > loop.j)

\* no ordered pair (from, to) in two transfers of the response
NoPairTwice ==
    \A a, b \in 1..Len(resp.transactions) :
        (/\ resp.transactions[a].fromUserId = resp.transactions[b].fromUserId
         /\ resp.transactions[a].toUserId = resp.transactions[b].toUserId) => a = b

\* the number of debtors and creditors the loop was started on
Parties == Len(loop.debtorsCopy) + Len(loop.creditorsCopy)

\* C18 as stated: every emitting iteration advances a cursor, and whenever the
\* summary returns the number of transfers is at most debtors + creditors - 1,
\* hence at most memberCount - 1, and no ordered pair (from, to) occurs twice.
C18_TransferCountBound ==
    /\ [][EmitAdvances]_vars
    /\ [](Returned =>
            /\ Len(resp.transactions) <= Parties - 1
            /\ Parties - 1 <= Len(snap.users) - 1
            /\ NoPairTwice)

\* C18 amended: every emitting iteration advances a cursor, and whenever the
\* summary returns the number of transfers is 0 when there is no debtor or no
\* creditor and at most debtors + creditors - 1 otherwise, hence at most
\* memberCount - 1 for a group with a member, and no ordered pair occurs twice.
C18_TransferCountBoundAmended ==
    /\ [][EmitAdvances]_vars
    /\ [](Returned =>
            /\ Len(resp.transactions) <= (IF Parties = 0 THEN 0 ELSE Parties - 1)
            /\ Parties <= Len(snap.users)
            /\ Len(snap.users) > 0 => Len(resp.transactions) <= Len(snap.users) - 1
            /\ NoPairTwice)

\* a summary returned with two debtors, one creditor and two transfers
C18_Witness ==
    /\ Returned
    /\ Len(loop.debtorsCopy) = 2
    /\ Len(loop.creditorsCopy) = 1
    /\ Len(resp.transactions) = 2

====
